---- MODULE Spec2Model ----
(***************************************************************************)
(* CoE-Agent: the RAG workflow agent (core/agents/rag_workflow_agent.py),  *)
(* the remote client it calls (services/rag_client.py), the answer         *)
(* synthesizer (tools/text_utils.py) and the CLI boundary that parses a    *)
(* workflow definition into typed steps (main.py).                         *)
(*                                                                         *)
(* Text. A Python str is modelled as a sequence of pieces; the string is   *)
(* the concatenation of its pieces. A piece is either one whitespace       *)
(* character (" " or "\n") or a chunk without whitespace, so that strip(), *)
(* split() and textwrap.shorten() can be computed as Python computes them. *)
(* Python None is the one-piece text None (str(None) is "None").           *)
(***************************************************************************)
EXTENDS Integers, Sequences, FiniteSets, TLC

VARIABLES
    pc,                 \* position of the program: see PcValues
    cli_query,          \* args.query of the command line
    cli_workflow,       \* the parsed JSON array of --workflow (raw entries)
    task,               \* the RagWorkflowTask handed to RagWorkflowAgent.run
    index,              \* enumerate(task.operations, start=1): current step
    step_results,       \* list[AgentStepResult]
    collected_snippets, \* list[str]
    answer_notes,       \* list[str]
    requests,           \* history: every network call issued, in order
    replies,            \* history: per step, the response it resumed with (NoReply if none)
    inflight,           \* the network call being awaited, or NoRequest
    result,             \* the AgentResult returned by run, or NoResult
    error,              \* the exception that left run / the CLI, or NoError
    lib_call,           \* a library function called directly, with its arguments, or NoCall
    lib_sent,           \* history: the network calls issued by the direct client call
    lib_reply,          \* history: the response the direct client call resumed with
    lib_outcome         \* what the direct call returned or raised, or NoOutcome

vars == <<pc, cli_query, cli_workflow, task, index, step_results,
          collected_snippets, answer_notes, requests, replies,
          inflight, result, error, lib_call, lib_sent, lib_reply,
          lib_outcome>>

\* the state of RagWorkflowAgent.run and of the CLI around it
agent_vars == <<cli_query, cli_workflow, task, index, step_results,
                collected_snippets, answer_notes, requests, replies,
                inflight, result, error>>

\* the state of a direct call of a library function
lib_vars == <<lib_call, lib_sent, lib_reply, lib_outcome>>

-----------------------------------------------------------------------------
(* Bounds *)

MaxOps == 2     \* longest workflow definition over CoreEntries
MaxWide == 1    \* longest workflow definition over all of RawEntries
MaxApiOps == 2  \* longest operation list of a task built by a caller of run
MaxSnippets == 2 \* longest snippet list handed to synthesize_answer directly

-----------------------------------------------------------------------------
(* Python values *)

None == <<"None">>

\* Python truthiness of a str / list / None value
Truthy(v) == v # None /\ v # <<>>

\* `a or b`
Or(a, b) == IF Truthy(a) THEN a ELSE b

IsSpace(p) == p \in {" ", "\n", "\t"}

RECURSIVE LStrip(_)
LStrip(t) == IF t # <<>> /\ IsSpace(Head(t)) THEN LStrip(Tail(t)) ELSE t

RECURSIVE RStrip(_)
RStrip(t) ==
    IF t # <<>> /\ IsSpace(t[Len(t)]) THEN RStrip(SubSeq(t, 1, Len(t) - 1)) ELSE t

\* str.strip()
Strip(t) == RStrip(LStrip(t))

\* len(str): the characters of all pieces
RECURSIVE TextLen(_)
TextLen(t) == IF t = <<>> THEN 0 ELSE Len(Head(t)) + TextLen(Tail(t))

\* sep.join(parts), parts a sequence of texts, sep a text
RECURSIVE Join(_, _)
Join(parts, sep) ==
    IF parts = <<>> THEN <<>>
    ELSE IF Len(parts) = 1 THEN parts[1]
    ELSE parts[1] \o sep \o Join(Tail(parts), sep)

\* str.split(): the maximal whitespace-free runs; `cur` is the run being read
RECURSIVE SplitFrom(_, _)
SplitFrom(t, cur) ==
    IF t = <<>> THEN (IF cur = <<>> THEN <<>> ELSE <<cur>>)
    ELSE IF IsSpace(Head(t))
         THEN (IF cur = <<>> THEN <<>> ELSE <<cur>>) \o SplitFrom(Tail(t), <<>>)
         ELSE SplitFrom(Tail(t), Append(cur, Head(t)))

Split(t) == SplitFrom(t, <<>>)

-----------------------------------------------------------------------------
(* tools/text_utils.py *)

\* textwrap.shorten(width=320, ...)
Width == 320

\* placeholder=" ..."
Placeholder == <<" ", "...">>

\* TextWrapper.wordsep_re (break_on_hyphens): besides whitespace, a word may
\* be broken right after a hyphen that joins two of its parts. Such a part is
\* written as a piece of its own: the pieces of the inputs that end in a hyphen
\* after a letter and are followed by a letter
Hyphenated == {"alpha-", "beta-"}

\* TextWrapper._split on one whitespace-free word: its chunks, `cur` being
\* the chunk read so far
RECURSIVE WordChunks(_, _)
WordChunks(word, cur) ==
    IF word = <<>> THEN (IF cur = <<>> THEN <<>> ELSE <<cur>>)
    ELSE IF Head(word) \in Hyphenated /\ Tail(word) # <<>>
         THEN <<Append(cur, Head(word))>> \o WordChunks(Tail(word), <<>>)
         ELSE WordChunks(Tail(word), Append(cur, Head(word)))

\* TextWrapper._split on the collapsed text: the chunks of the words with one
\* blank chunk between two words
RECURSIVE Chunks(_)
Chunks(words) ==
    IF words = <<>> THEN <<>>
    ELSE IF Len(words) = 1 THEN WordChunks(words[1], <<>>)
    ELSE WordChunks(words[1], <<>>) \o << <<" ">> >> \o Chunks(Tail(words))

\* TextWrapper._wrap_chunks with max_lines=1 on a text longer than the width:
\* chunks are dropped from the end of the line until the last one is no blank
\* and the line leaves room for the placeholder (a long word cut to fill the
\* line never leaves that room); the number of chunks kept, 0 if none
RECURSIVE KeepChunks(_, _)
KeepChunks(chunks, n) ==
    IF n = 0 THEN 0
    ELSE IF /\ chunks[n] # <<" ">>
            /\ TextLen(Join(SubSeq(chunks, 1, n), <<>>)) + TextLen(Placeholder) <= Width
         THEN n
         ELSE KeepChunks(chunks, n - 1)

\* textwrap.shorten(text, width, placeholder): collapse every whitespace run
\* to one blank, then, if the text is too long, keep the leading chunks that
\* fit and put the placeholder after them
Shorten(text) ==
    LET words == Split(Strip(text))
        collapsed == Join(words, <<" ">>)
        chunks == Chunks(words)
        n == KeepChunks(chunks, Len(chunks))
    IN  IF TextLen(collapsed) <= Width THEN collapsed
        ELSE IF n = 0 THEN LStrip(Placeholder)
        ELSE Join(SubSeq(chunks, 1, n), <<>>) \o Placeholder

NoDocuments ==
    <<"No supporting documents were located. Please provide additional detail.">>

\* f"Question: {query}\nContext: {teaser} {remaining}".strip()
Combined(query, snippets) ==
    LET teaser == Strip(snippets[1])
        remaining == Join([i \in 1..(Len(snippets) - 1) |-> Strip(snippets[i + 1])],
                          <<" ">>)
    IN  Strip(<<"Question:", " ">> \o query \o <<"\n", "Context:", " ">>
              \o teaser \o <<" ">> \o remaining)

synthesize_answer(query, snippets) ==
    IF snippets = <<>> THEN NoDocuments
    ELSE Shorten(Combined(query, snippets))

-----------------------------------------------------------------------------
(* Exceptions and JSON values *)

\* the outcome of a call: a returned value or a raised exception
Return(v) == [raised |-> FALSE, value |-> v]
Raise(type, msg) == [raised |-> TRUE, type |-> type, msg |-> msg]

\* words joined by single blanks
Sentence(ws) == Join([i \in 1..Len(ws) |-> <<ws[i]>>], <<" ">>)

\* a decoded JSON payload: null (or no payload), an array or an object
JNull == [shape |-> "null"]
JList(items) == [shape |-> "list", items |-> items]
JDict(fields) == [shape |-> "dict", fields |-> fields]
EmptyDict == JDict([k \in {} |-> None])

\* truthiness of a payload: None, [] and {} are falsy
JTruthy(j) ==
    CASE j.shape = "null" -> FALSE
      [] j.shape = "list" -> j.items # <<>>
      [] j.shape = "dict" -> DOMAIN j.fields # {}

\* dict.get(key, default)
Get(d, key, default) == IF key \in DOMAIN d.fields THEN d.fields[key] ELSE default

-----------------------------------------------------------------------------
(* core/models.py *)

SEMANTIC_SEARCH == "semantic_search"
SOURCE_SUMMARY_SEARCH == "source_summary_search"
START_ANALYSIS == "start_analysis"
GET_ANALYSIS_RESULT == "get_analysis_result"
LIST_ANALYSIS_RESULTS == "list_analysis_results"
GENERATE_DOCUMENTS == "generate_documents"
GET_DOCUMENT_STATUS == "get_document_status"
EMBEDDING_STATS == "embedding_stats"

\* class RagOperationType(StrEnum): the closed enumeration, by value
RagOperationType ==
    {SEMANTIC_SEARCH, SOURCE_SUMMARY_SEARCH, START_ANALYSIS, GET_ANALYSIS_RESULT,
     LIST_ANALYSIS_RESULTS, GENERATE_DOCUMENTS, GET_DOCUMENT_STATUS, EMBEDDING_STATS}

RagWorkflowStep(operation, parameters) ==
    [operation |-> operation, parameters |-> parameters]

AgentStepResult(operation, status, output) ==
    [operation |-> operation, status |-> status, output |-> output]

RagSearchResult(content, metadata, original_score, rerank_score) ==
    [content |-> content, metadata |-> metadata,
     original_score |-> original_score, rerank_score |-> rerank_score]

RagSourceSummaryResult(content, file_path, language, similarity_score, metadata) ==
    [content |-> content, file_path |-> file_path, language |-> language,
     similarity_score |-> similarity_score, metadata |-> metadata]

\* mutant: file_path is looked up before file_name
SearchLabelPathFirst(metadata) ==
    Or(Get(metadata, "file_path", None),
       Or(Get(metadata, "file_name", None),
          Or(Get(metadata, "document_type", None),
             Get(metadata, "analysis_id", None))))

\* RagSearchResult.as_context: "[label] content", label by metadata precedence
SearchLabel(metadata) ==
    Or(Get(metadata, "file_name", None),
       Or(Get(metadata, "file_path", None),
          Or(Get(metadata, "document_type", None),
             Get(metadata, "analysis_id", None))))

SearchAsContext(entry) ==
    LET label == SearchLabel(entry.metadata)
        prefix == IF Truthy(label) THEN <<"[">> \o label \o <<"]", " ">> ELSE <<>>
    IN  Strip(prefix \o entry.content)

\* RagSourceSummaryResult.as_context: "[file_path | language] content"
SummaryAsContext(entry) ==
    LET parts == (IF Truthy(entry.file_path) THEN <<entry.file_path>> ELSE <<>>)
                 \o (IF Truthy(entry.language) THEN <<entry.language>> ELSE <<>>)
        joined == Join(parts, <<" ", "|", " ">>)
        prefix == IF joined # <<>> THEN <<"[">> \o joined \o <<"]", " ">> ELSE <<>>
    IN  Strip(prefix \o entry.content)

-----------------------------------------------------------------------------
(* services/rag_client.py *)

\* what the remote engine answers to one request
HttpResponse(status_code, content, body) ==
    [status_code |-> status_code, content |-> content, body |-> body]

\* RagClient._request_json after the await: raise_for_status(), then None for
\* an empty body, else response.json()
request_json(response) ==
    IF response.status_code \notin 200..299
    THEN Raise("HTTPStatusError",
               Sentence(<<"Server", "error", ToString(response.status_code)>>))
    ELSE IF response.content = "empty" THEN Return(JNull)
    ELSE IF response.content = "not_json"
         THEN Raise("JSONDecodeError", Sentence(<<"Expecting", "value">>))
    ELSE Return(response.body)

HttpRequest(method, path, json, params) ==
    [method |-> method, path |-> path, json |-> json, params |-> params]

NoPayload == [k \in {} |-> None]

\* the keys of `optional` whose value is truthy (absent filters are omitted)
Present(optional) == {k \in DOMAIN optional : Truthy(optional[k])}

\* RagClient.semantic_search up to its await
semantic_search_request(query, k, analysis_id) ==
    LET optional == [analysis_id |-> analysis_id]
        payload == [key \in {"query", "k"} \cup Present(optional) |->
                        CASE key = "query" -> query
                          [] key = "k" -> <<ToString(k)>>
                          [] OTHER -> optional[key]]
    IN  Return(HttpRequest("POST", <<"/api/v1/search">>, payload, NoPayload))

\* RagClient.semantic_search after its await
semantic_search_result(response) ==
    LET body == request_json(response)
        entries == IF JTruthy(body.value) THEN body.value ELSE JList(<<>>)
    IN  IF body.raised THEN body
        ELSE IF entries.shape # "list"
             THEN Raise("AttributeError", Sentence(<<"no", "attribute", "get">>))
        ELSE Return([i \in 1..Len(entries.items) |->
                 LET entry == entries.items[i]
                     metadata == Get(entry, "metadata", EmptyDict)
                 IN  RagSearchResult(
                         Get(entry, "content", <<>>),
                         IF JTruthy(metadata) THEN metadata ELSE EmptyDict,
                         Get(entry, "original_score", None),
                         Get(entry, "rerank_score", None))])

\* RagClient.search_source_summaries up to its await
search_source_summaries_request(analysis_id, query, top_k) ==
    Return(HttpRequest("GET", <<"/api/v1/source-summary/search/">> \o analysis_id,
                       NoPayload,
                       [query |-> query, top_k |-> <<ToString(top_k)>>]))

\* RagClient.search_source_summaries after its await
search_source_summaries_result(response) ==
    LET body == request_json(response)
        top == IF JTruthy(body.value) THEN body.value ELSE EmptyDict
        data == Get(top, "data", EmptyDict)
        found == Get(data, "results", <<>>)
    IN  IF body.raised THEN body
        ELSE IF top.shape # "dict"
             THEN Raise("AttributeError", Sentence(<<"no", "attribute", "get">>))
        ELSE Return([i \in 1..Len(found) |->
                 LET entry == found[i]
                     metadata == Get(entry, "metadata", EmptyDict)
                 IN  RagSourceSummaryResult(
                         Get(entry, "content", <<>>),
                         Get(entry, "file_path", None),
                         Get(entry, "language", None),
                         Get(entry, "similarity_score", None),
                         IF JTruthy(metadata) THEN metadata ELSE EmptyDict)])

\* RagClient.start_analysis up to its await
start_analysis_request(repositories, options) ==
    IF ~Truthy(repositories)
    THEN Raise("ValueError",
               Sentence(<<"at", "least", "one", "repository", "is", "required",
                          "to", "start", "analysis">>))
    ELSE Return(HttpRequest("POST", <<"/api/v1/analyze">>,
                 [key \in {"repositories"} \cup {k \in DOMAIN options : options[k] # None} |->
                      IF key = "repositories" THEN repositories ELSE options[key]],
                 NoPayload))

\* `body or {}` / `list(body or [])`: the tail of the descriptor-returning methods
descriptor_result(response, empty) ==
    LET body == request_json(response)
    IN  IF body.raised THEN body
        ELSE Return(IF JTruthy(body.value) THEN body.value ELSE empty)

start_analysis_result(response) == descriptor_result(response, EmptyDict)

\* RagClient.get_analysis_result
get_analysis_result_request(analysis_id) ==
    Return(HttpRequest("GET", <<"/api/v1/results/">> \o analysis_id, NoPayload, NoPayload))

get_analysis_result_result(response) == descriptor_result(response, EmptyDict)

\* RagClient.list_analysis_results
list_analysis_results_request ==
    Return(HttpRequest("GET", <<"/api/v1/results">>, NoPayload, NoPayload))

list_analysis_results_result(response) ==
    LET body == request_json(response)
        listed == IF JTruthy(body.value) THEN body.value ELSE JList(<<>>)
    IN  IF body.raised THEN body
        ELSE IF listed.shape = "dict"
             THEN Return(JList([i \in 1..Cardinality(DOMAIN listed.fields) |-> None]))
        ELSE Return(listed)

\* mutant: generate_documents without the check of lines 143-144
generate_documents_request_unchecked(analysis_id, document_types, language, custom_prompt, use_source_summaries) ==
    Return(HttpRequest("POST", <<"/api/v1/documents/generate">>,
             [key \in {"analysis_id", "document_types", "language"} |->
                  CASE key = "analysis_id" -> analysis_id
                    [] key = "document_types" -> document_types
                    [] OTHER -> language],
             [use_source_summaries |->
                  IF use_source_summaries THEN <<"true">> ELSE <<"false">>]))

\* RagClient.generate_documents up to its await
generate_documents_request(analysis_id, document_types, language, custom_prompt, use_source_summaries) ==
    IF ~Truthy(document_types)
    THEN Raise("ValueError",
               Sentence(<<"document_types", "must", "contain", "at", "least",
                          "one", "entry">>))
    ELSE Return(HttpRequest("POST", <<"/api/v1/documents/generate">>,
                 [key \in {"analysis_id", "document_types", "language"}
                          \cup (IF Truthy(custom_prompt) THEN {"custom_prompt"} ELSE {}) |->
                      CASE key = "analysis_id" -> analysis_id
                        [] key = "document_types" -> document_types
                        [] key = "language" -> language
                        [] OTHER -> custom_prompt],
                 [use_source_summaries |->
                      IF use_source_summaries THEN <<"true">> ELSE <<"false">>]))

generate_documents_result(response) == descriptor_result(response, EmptyDict)

\* RagClient.get_document_status
get_document_status_request(task_id) ==
    Return(HttpRequest("GET", <<"/api/v1/documents/status/">> \o task_id,
                       NoPayload, NoPayload))

get_document_status_result(response) == descriptor_result(response, EmptyDict)

\* RagClient.get_embedding_stats
get_embedding_stats_request ==
    Return(HttpRequest("GET", <<"/api/v1/stats">>, NoPayload, NoPayload))

get_embedding_stats_result(response) == descriptor_result(response, EmptyDict)

-----------------------------------------------------------------------------
(* core/agents/rag_workflow_agent.py: the step handlers *)

\* params.get(key, default) on a step's parameter mapping
PGet(params, key, default) == IF key \in DOMAIN params THEN params[key] ELSE default

\* int(value) for the values a workflow definition carries
int(value) ==
    CASE value = <<"1">> -> Return(1)
      [] value = <<"5">> -> Return(5)
      [] value = <<"10">> -> Return(10)
      [] OTHER -> Raise("ValueError",
                        Sentence(<<"invalid", "literal", "for", "int()">>))

\* what a handler hands back on success: (output, snippets, note)
StepOutcome(output, snippets, note) ==
    Return([output |-> output, snippets |-> snippets, note |-> note])

\* result.get(key, 'unknown') on a descriptor; a descriptor that is no mapping
\* has no get
DescriptorGet(descriptor, key) ==
    IF descriptor.shape # "dict"
    THEN Raise("AttributeError", Sentence(<<"no", "attribute", "get">>))
    ELSE Return(Get(descriptor, key, <<"unknown">>))

\* mutant: the task-level query is preferred to the step's own
ResolveQueryTaskFirst(params, the_task) ==
    Or(the_task.query, PGet(params, "query", None))

\* `params.get("query") or task.query`
ResolveQuery(params, the_task) == Or(PGet(params, "query", None), the_task.query)

\* _semantic_search_step up to its await
semantic_search_step_call(params, the_task) ==
    LET query == ResolveQuery(params, the_task)
        k == int(PGet(params, "k", PGet(params, "top_k", <<"5">>)))
    IN  IF ~Truthy(query)
        THEN Raise("ValueError", Sentence(<<"semantic_search", "requires", "a", "query">>))
        ELSE IF k.raised THEN k
        ELSE semantic_search_request(query, k.value, PGet(params, "analysis_id", None))

\* _semantic_search_step after its await
semantic_search_step_done(params, the_task, response) ==
    LET results == semantic_search_result(response)
    IN  IF results.raised THEN results
        ELSE StepOutcome(
                 JList(results.value),
                 [i \in 1..Len(results.value) |-> SearchAsContext(results.value[i])],
                 Sentence(<<"retrieved", ToString(Len(results.value)),
                            "semantic", "matches">>))

\* mutant: _source_summary_step without the check of lines 168-169
source_summary_step_call_unchecked(params, the_task) ==
    LET analysis_id == PGet(params, "analysis_id", None)
        query == ResolveQuery(params, the_task)
        top_k == int(PGet(params, "top_k", PGet(params, "k", <<"10">>)))
    IN  IF ~Truthy(query)
        THEN Raise("ValueError",
                   Sentence(<<"source_summary_search", "requires", "a", "query">>))
        ELSE IF top_k.raised THEN top_k
        ELSE search_source_summaries_request(analysis_id, query, top_k.value)

\* _source_summary_step up to its await
source_summary_step_call(params, the_task) ==
    LET analysis_id == PGet(params, "analysis_id", None)
        query == ResolveQuery(params, the_task)
        top_k == int(PGet(params, "top_k", PGet(params, "k", <<"10">>)))
    IN  IF ~Truthy(analysis_id)
        THEN Raise("ValueError",
                   Sentence(<<"source_summary_search", "requires", "analysis_id">>))
        ELSE IF ~Truthy(query)
        THEN Raise("ValueError",
                   Sentence(<<"source_summary_search", "requires", "a", "query">>))
        ELSE IF top_k.raised THEN top_k
        ELSE search_source_summaries_request(analysis_id, query, top_k.value)

\* _source_summary_step after its await
source_summary_step_done(params, the_task, response) ==
    LET results == search_source_summaries_result(response)
    IN  IF results.raised THEN results
        ELSE StepOutcome(
                 JList(results.value),
                 [i \in 1..Len(results.value) |-> SummaryAsContext(results.value[i])],
                 Sentence(<<"retrieved", ToString(Len(results.value)), "source",
                            "summaries", "for", "analysis">>)
                     \o <<" ">> \o PGet(params, "analysis_id", None))

\* _start_analysis_step up to its await
start_analysis_step_call(params) ==
    LET repositories == PGet(params, "repositories", None)
        options == [key \in DOMAIN params \ {"repositories"} |-> params[key]]
    IN  IF ~Truthy(repositories)
        THEN Raise("ValueError", Sentence(<<"start_analysis", "requires", "repositories">>))
        ELSE start_analysis_request(repositories, options)

\* _start_analysis_step after its await
start_analysis_step_done(params, response) ==
    LET started == start_analysis_result(response)
        id == DescriptorGet(started.value, "analysis_id")
    IN  IF started.raised THEN started
        ELSE IF id.raised THEN id
        ELSE StepOutcome(started.value, <<>>,
                 Sentence(<<"analysis", "started", "with", "id">>) \o <<" ">> \o id.value)

\* _safe_get: dict.get for a mapping, getattr(obj, key, None) otherwise
safe_get(obj, key) == IF obj.shape = "dict" THEN Get(obj, key, None) ELSE None

\* the headline of one repository entry
Headline(repo) ==
    LET repo_name == Or(safe_get(repo, "name"), Or(safe_get(repo, "url"), <<"unknown">>))
        language == Or(safe_get(repo, "primary_language"), safe_get(repo, "language"))
    IN  <<"Repository", " ", "insight:", " ">> \o repo_name
        \o (IF Truthy(language) THEN <<" ", "(">> \o language \o <<")">> ELSE <<>>)

\* _extract_repository_headlines: at most the first three repositories
extract_repository_headlines(analysis_result) ==
    IF analysis_result.shape # "dict"
    THEN Raise("AttributeError", Sentence(<<"no", "attribute", "get">>))
    ELSE LET repositories == Get(analysis_result, "repositories", <<>>)
             first == SubSeq(repositories, 1, IF Len(repositories) < 3
                                              THEN Len(repositories) ELSE 3)
         IN  Return([i \in 1..Len(first) |-> Headline(first[i])])

\* _get_analysis_result_step up to its await
get_analysis_result_step_call(params) ==
    LET analysis_id == PGet(params, "analysis_id", None)
    IN  IF ~Truthy(analysis_id)
        THEN Raise("ValueError",
                   Sentence(<<"get_analysis_result", "requires", "analysis_id">>))
        ELSE get_analysis_result_request(analysis_id)

\* _get_analysis_result_step after its await
get_analysis_result_step_done(params, response) ==
    LET fetched == get_analysis_result_result(response)
        snippets == extract_repository_headlines(fetched.value)
        status == DescriptorGet(fetched.value, "status")
    IN  IF fetched.raised THEN fetched
        ELSE IF snippets.raised THEN snippets
        ELSE IF status.raised THEN status
        ELSE StepOutcome(fetched.value, snippets.value,
                 <<"analysis", " ">> \o PGet(params, "analysis_id", None)
                     \o <<" ", "status", " ">> \o status.value)

\* _list_analysis_results_step
list_analysis_results_step_call == list_analysis_results_request

list_analysis_results_step_done(response) ==
    LET listed == list_analysis_results_result(response)
    IN  IF listed.raised THEN listed
        ELSE StepOutcome(listed.value, <<>>,
                 Sentence(<<"found", ToString(Len(listed.value.items)),
                            "recorded", "analyses">>))

\* _generate_documents_step up to its await
generate_documents_step_call(params) ==
    LET analysis_id == PGet(params, "analysis_id", None)
        document_types == PGet(params, "document_types", None)
    IN  IF ~Truthy(analysis_id) \/ ~Truthy(document_types)
        THEN Raise("ValueError",
                   Sentence(<<"generate_documents", "requires", "analysis_id",
                              "and", "document_types">>))
        ELSE generate_documents_request(analysis_id, document_types,
                 PGet(params, "language", <<"korean">>),
                 PGet(params, "custom_prompt", None),
                 TRUE)

\* _generate_documents_step after its await
generate_documents_step_done(params, response) ==
    LET submitted == generate_documents_result(response)
        id == DescriptorGet(submitted.value, "task_id")
    IN  IF submitted.raised THEN submitted
        ELSE IF id.raised THEN id
        ELSE StepOutcome(submitted.value, <<>>,
                 Sentence(<<"document", "generation", "task">>) \o <<" ">> \o id.value
                     \o <<" ", "submitted">>)

\* _get_document_status_step up to its await
get_document_status_step_call(params) ==
    LET task_id == PGet(params, "task_id", None)
    IN  IF ~Truthy(task_id)
        THEN Raise("ValueError",
                   Sentence(<<"get_document_status", "requires", "task_id">>))
        ELSE get_document_status_request(task_id)

\* _get_document_status_step after its await
get_document_status_step_done(params, response) ==
    LET fetched == get_document_status_result(response)
        status == DescriptorGet(fetched.value, "status")
    IN  IF fetched.raised THEN fetched
        ELSE IF status.raised THEN status
        ELSE StepOutcome(fetched.value, <<>>,
                 <<"document", " ", "task", " ">> \o PGet(params, "task_id", None)
                     \o <<" ", "status", " ">> \o status.value)

\* _embedding_stats_step
embedding_stats_step_call == get_embedding_stats_request

\* mutant: the handler returns an empty note
embedding_stats_step_done_silent(response) ==
    LET stats == get_embedding_stats_result(response)
    IN  IF stats.raised THEN stats
        ELSE StepOutcome(stats.value, <<>>, <<>>)

embedding_stats_step_done(response) ==
    LET stats == get_embedding_stats_result(response)
    IN  IF stats.raised THEN stats
        ELSE StepOutcome(stats.value, <<>>,
                 Sentence(<<"retrieved", "embedding", "statistics">>))

Unsupported(operation) ==
    Raise("ValueError", <<"Unsupported", " ", "workflow", " ", "operation:", " ", operation>>)

\* _execute_step up to the await of the selected handler: the request the
\* handler issues, or the exception it raises before any request
execute_step_call(step, the_task) ==
    LET operation == step.operation
        params == step.parameters
    IN  CASE operation = SEMANTIC_SEARCH -> semantic_search_step_call(params, the_task)
          [] operation = SOURCE_SUMMARY_SEARCH -> source_summary_step_call(params, the_task)
          [] operation = START_ANALYSIS -> start_analysis_step_call(params)
          [] operation = GET_ANALYSIS_RESULT -> get_analysis_result_step_call(params)
          [] operation = LIST_ANALYSIS_RESULTS -> list_analysis_results_step_call
          [] operation = GENERATE_DOCUMENTS -> generate_documents_step_call(params)
          [] operation = GET_DOCUMENT_STATUS -> get_document_status_step_call(params)
          [] operation = EMBEDDING_STATS -> embedding_stats_step_call
          [] OTHER -> Unsupported(operation)

\* _execute_step from the response on: (output, snippets, note) or an exception
execute_step_done(step, the_task, response) ==
    LET operation == step.operation
        params == step.parameters
    IN  CASE operation = SEMANTIC_SEARCH -> semantic_search_step_done(params, the_task, response)
          [] operation = SOURCE_SUMMARY_SEARCH -> source_summary_step_done(params, the_task, response)
          [] operation = START_ANALYSIS -> start_analysis_step_done(params, response)
          [] operation = GET_ANALYSIS_RESULT -> get_analysis_result_step_done(params, response)
          [] operation = LIST_ANALYSIS_RESULTS -> list_analysis_results_step_done(response)
          [] operation = GENERATE_DOCUMENTS -> generate_documents_step_done(params, response)
          [] operation = GET_DOCUMENT_STATUS -> get_document_status_step_done(params, response)
          [] operation = EMBEDDING_STATS -> embedding_stats_step_done(response)
          [] OTHER -> Unsupported(operation)

-----------------------------------------------------------------------------
(* Inputs: the workflow definitions and the remote engine's answers *)

Q == <<"Q">>
StepQ == <<"q2">>
AnalysisId == <<"A">>
X10 == "xxxxxxxxxx"
X50 == X10 \o X10 \o X10 \o X10 \o X10
X300 == X50 \o X50 \o X50 \o X50 \o X50 \o X50

\* one entry of the --workflow JSON array
Entry(operation, fields) == [operation |-> operation, parameters |-> JDict(fields)]

RawEntries ==
    { Entry(SEMANTIC_SEARCH, [k \in {} |-> None]),
      Entry(SEMANTIC_SEARCH, [query |-> StepQ]),
      Entry(SEMANTIC_SEARCH, [query |-> <<>>]),
      Entry(SEMANTIC_SEARCH, [query |-> StepQ, k |-> <<"many">>]),
      Entry(SOURCE_SUMMARY_SEARCH, [k \in {} |-> None]),
      Entry(SOURCE_SUMMARY_SEARCH, [analysis_id |-> AnalysisId]),
      Entry(SOURCE_SUMMARY_SEARCH, [analysis_id |-> AnalysisId, query |-> StepQ]),
      Entry(SOURCE_SUMMARY_SEARCH, [query |-> StepQ]),
      Entry(START_ANALYSIS, [k \in {} |-> None]),
      Entry(START_ANALYSIS, [repositories |-> <<>>]),
      Entry(START_ANALYSIS, [repositories |-> <<"repo">>, branch |-> None]),
      Entry(GET_ANALYSIS_RESULT, [k \in {} |-> None]),
      Entry(GET_ANALYSIS_RESULT, [analysis_id |-> AnalysisId]),
      [operation |-> LIST_ANALYSIS_RESULTS],
      Entry(GENERATE_DOCUMENTS, [document_types |-> <<"readme">>]),
      Entry(GENERATE_DOCUMENTS, [analysis_id |-> AnalysisId, document_types |-> <<>>]),
      Entry(GENERATE_DOCUMENTS, [analysis_id |-> AnalysisId, document_types |-> <<"readme">>]),
      Entry(GET_DOCUMENT_STATUS, [k \in {} |-> None]),
      Entry(GET_DOCUMENT_STATUS, [task_id |-> <<"T">>]),
      [operation |-> EMBEDDING_STATS],
      [operation |-> EMBEDDING_STATS, parameters |-> JList(<<"x">>)],
      [operation |-> "bogus"],
      [parameters |-> JDict([query |-> StepQ])] }

RECURSIVE SeqsUpTo(_, _)
SeqsUpTo(S, n) ==
    IF n = 0 THEN {<<>>}
    ELSE LET shorter == SeqsUpTo(S, n - 1)
         IN  shorter \cup {Append(w, e) : w \in {x \in shorter : Len(x) = n - 1}, e \in S}

\* the entries combined into the longer workflows: searches that need the
\* task's query or bring their own, a step that fails its validation, steps
\* with and without snippets, and an operation outside the enumeration
CoreEntries ==
    { Entry(SEMANTIC_SEARCH, [k \in {} |-> None]),
      Entry(SEMANTIC_SEARCH, [query |-> StepQ]),
      Entry(SOURCE_SUMMARY_SEARCH, [analysis_id |-> AnalysisId]),
      Entry(GET_ANALYSIS_RESULT, [analysis_id |-> AnalysisId]),
      Entry(GET_DOCUMENT_STATUS, [k \in {} |-> None]),
      [operation |-> EMBEDDING_STATS],
      [operation |-> "bogus"] }

Workflows == SeqsUpTo(CoreEntries, MaxOps) \cup SeqsUpTo(RawEntries, MaxWide)

Queries == {None, <<>>, Q}

Hit1 == JDict([content |-> <<"s1">>])
Hit2 == JDict([content |-> <<"s2">>, metadata |-> EmptyDict])
Hit3 == JDict([content |-> <<" ", "lead", "\n", "tail", " ">>,
               metadata |-> JDict([file_name |-> <<"a.md">>, file_path |-> <<"b.md">>]),
               original_score |-> <<"0.92">>])
HitLong == JDict([content |-> <<X300, " ", "end">>,
                  metadata |-> JDict([file_path |-> <<"b.md">>])])

Summary1 == JDict([content |-> <<"sum1">>, file_path |-> <<"src/a.py">>,
                   language |-> <<"python">>])
Summary2 == JDict([content |-> <<"sum2">>])

Repo1 == JDict([name |-> <<"coe">>, primary_language |-> <<"python">>])
Repo2 == JDict([url |-> <<"http://git/x">>, language |-> <<"go">>])
Repo3 == JDict([stars |-> <<"3">>])
Repo4 == JDict([name |-> <<"fourth">>])

\* the JSON payloads the remote engine may answer with, per operation
Bodies(operation) ==
    CASE operation = SEMANTIC_SEARCH ->
             {JList(<<Hit1>>), JList(<<Hit1, Hit2>>), JList(<<Hit3, HitLong>>)}
      [] operation = SOURCE_SUMMARY_SEARCH ->
             {JDict([data |-> JDict([results |-> <<Summary1, Summary2>>])]),
              JDict([data |-> JDict([results |-> <<Summary2>>])])}
      [] operation = START_ANALYSIS -> {JDict([analysis_id |-> AnalysisId])}
      [] operation = GET_ANALYSIS_RESULT ->
             {JDict([status |-> <<"completed">>,
                     repositories |-> <<Repo1, Repo2, Repo3, Repo4>>]),
              JList(<<EmptyDict>>)}
      [] operation = LIST_ANALYSIS_RESULTS -> {JList(<<JDict([analysis_id |-> AnalysisId])>>)}
      [] operation = GENERATE_DOCUMENTS -> {JDict([task_id |-> <<"T">>])}
      [] operation = GET_DOCUMENT_STATUS -> {JDict([status |-> <<"done">>])}
      [] OTHER -> {JDict([total |-> <<"3">>])}

\* every answer to a request: a server error, a 2xx without body, a 2xx whose
\* body is not JSON, a 2xx with a JSON payload
Responses(operation) ==
    {HttpResponse(500, "json", JDict([detail |-> <<"boom">>])),
     HttpResponse(200, "empty", JNull),
     HttpResponse(200, "not_json", JNull)}
    \cup {HttpResponse(200, "json", body) : body \in Bodies(operation)}

-----------------------------------------------------------------------------
(* main.py: the CLI boundary *)

MissingOperation(entry) == "operation" \notin DOMAIN entry
UnknownOperation(entry) == entry.operation \notin RagOperationType
RawParameters(entry) ==
    IF "parameters" \in DOMAIN entry /\ JTruthy(entry.parameters)
    THEN entry.parameters ELSE EmptyDict
BadParameters(entry) == RawParameters(entry).shape # "dict"

\* the per-entry checks of _parse_workflow_definition, in the order made
BadEntry(entry) ==
    \/ MissingOperation(entry)
    \/ UnknownOperation(entry)
    \/ BadParameters(entry)

\* the loop of _parse_workflow_definition: the 1-based position, from i on,
\* of the first entry it rejects, 0 if there is none
RECURSIVE FirstBad(_, _)
FirstBad(entries, i) ==
    IF i > Len(entries) THEN 0
    ELSE IF BadEntry(entries[i]) THEN i
    ELSE FirstBad(entries, i + 1)

SystemExit(entry, position) ==
    Raise("SystemExit",
          IF MissingOperation(entry)
          THEN Sentence(<<"Workflow", "step", "#" \o ToString(position), "is",
                          "missing", "'operation'">>)
          ELSE IF UnknownOperation(entry)
          THEN Sentence(<<"Unsupported", "workflow", "operation",
                          "'" \o entry.operation \o "'", "at", "step",
                          "#" \o ToString(position)>>)
          ELSE Sentence(<<"Workflow", "step", "#" \o ToString(position),
                          "parameters", "must", "be", "an", "object">>))

\* _parse_workflow_definition on the decoded JSON array
parse_workflow_definition(parsed) ==
    LET bad == FirstBad(parsed, 1)
    IN  IF bad # 0 THEN SystemExit(parsed[bad], bad)
        ELSE Return([i \in 1..Len(parsed) |->
                 RagWorkflowStep(parsed[i].operation, RawParameters(parsed[i]).fields)])

RagWorkflowTask(task_id, query, operations, metadata) ==
    [task_id |-> task_id, query |-> query, operations |-> operations,
     metadata |-> metadata]

AgentResult(task_id, answer, context_snippets, metadata, steps) ==
    [task_id |-> task_id, answer |-> answer, context_snippets |-> context_snippets,
     metadata |-> metadata, steps |-> steps]

-----------------------------------------------------------------------------
(* core/agents/rag_workflow_agent.py: RagWorkflowAgent.run *)

NoTask == RagWorkflowTask("", None, <<>>, JNull)
NoRequest == [method |-> "NONE"]
NoReply == [status_code |-> 0]
NoResult == [task_id |-> "NONE"]
NoError == [raised |-> FALSE]
NoCall == [fn |-> "NONE"]
NoOutcome == [raised |-> FALSE, pending |-> TRUE]

\* the exception classes the model raises; all derive from Exception
ExceptionClasses == {"ValueError", "AttributeError", "HTTPStatusError", "JSONDecodeError"}

\* mutant: `except ValueError`, a clause too narrow for remote failures
CaughtValueErrorOnly(exc) == exc.type = "ValueError"

\* `except Exception as exc`
Caught(exc) == exc.type \in ExceptionClasses

CurrentStep == task.operations[index]

\* lines 53-59: the StepResult of a failed step
FailedStep(step, exc) ==
    AgentStepResult(step.operation, "failed", [error |-> exc.msg])

\* lines 60-62: f"Step {index} ({op}) failed: {exc}"
FailedNote(i, step, exc) ==
    <<"Step", " ", ToString(i), " ", "(" \o step.operation \o ")", " ", "failed:", " ">>
    \o exc.msg

\* lines 65-71: the StepResult of a step that returned
SucceededStep(step, outcome) ==
    AgentStepResult(step.operation, "succeeded", outcome.output)

\* mutant: the new snippets are put in front of the collected ones
ExtendFront(collected, snippets) == snippets \o collected

\* line 72: collected_snippets.extend(snippets)
Extend(collected, snippets) == collected \o snippets

\* lines 73-74: the note of a returned step, if it has one
SucceededNotes(i, step, outcome) ==
    IF outcome.note # <<>>
    THEN << <<"Step", " ", ToString(i), " ", "(" \o step.operation \o "):", " ">>
            \o outcome.note >>
    ELSE <<>>

NoTextualOutput == <<"Workflow completed without textual output.">>

\* mutant: the notes are preferred to the synthesized answer
BuildAnswerNotesFirst(query, snippets, notes) ==
    IF notes # <<>> THEN Join(notes, <<"\n">>)
    ELSE IF Truthy(query) /\ snippets # <<>> THEN synthesize_answer(query, snippets)
    ELSE NoTextualOutput

\* lines 76-82: the answer of the run
BuildAnswer(query, snippets, notes) ==
    LET synthesized == IF Truthy(query) /\ snippets # <<>>
                       THEN synthesize_answer(query, snippets) ELSE <<>>
        noted == IF synthesized = <<>> /\ notes # <<>>
                 THEN Join(notes, <<"\n">>) ELSE synthesized
    IN  IF noted = <<>> THEN NoTextualOutput ELSE noted

\* mutant: the count set by run survives a key of the same name in task.metadata
MergeMetadataCountWins(the_task) ==
    LET base == [workflow_operation_count |-> <<ToString(Len(the_task.operations))>>]
        extra == IF JTruthy(the_task.metadata) THEN the_task.metadata.fields
                 ELSE [k \in {} |-> None]
    IN  [key \in DOMAIN base \cup DOMAIN extra |->
            IF key \in DOMAIN base THEN base[key] ELSE extra[key]]

\* lines 41-43: {"workflow_operation_count": n} updated by task.metadata
MergeMetadata(the_task) ==
    LET base == [workflow_operation_count |-> <<ToString(Len(the_task.operations))>>]
        extra == IF JTruthy(the_task.metadata) THEN the_task.metadata.fields
                 ELSE [k \in {} |-> None]
    IN  [key \in DOMAIN base \cup DOMAIN extra |->
            IF key \in DOMAIN extra THEN extra[key] ELSE base[key]]

Init ==
    /\ pc = "cli"
    /\ cli_query \in Queries
    /\ cli_workflow \in Workflows
    /\ task = NoTask
    /\ index = 0
    /\ step_results = <<>>
    /\ collected_snippets = <<>>
    /\ answer_notes = <<>>
    /\ requests = <<>>
    /\ replies = <<>>
    /\ inflight = NoRequest
    /\ result = NoResult
    /\ error = NoError
    /\ lib_call = NoCall
    /\ lib_sent = <<>>
    /\ lib_reply = NoReply
    /\ lib_outcome = NoOutcome

\* main.py run_cli, lines 104-112: parse --workflow, build the task; a
\* SystemExit of the parser ends the program before any task exists
ParseWorkflow ==
    /\ pc = "cli"
    /\ LET operations == parse_workflow_definition(cli_workflow)
       IN  IF operations.raised
           THEN /\ pc' = "exited"
                /\ error' = operations
                /\ task' = task
           ELSE /\ pc' = "not_started"
                /\ task' = RagWorkflowTask("task-1", cli_query, operations.value, JNull)
                /\ error' = error
    /\ UNCHANGED <<cli_query, cli_workflow, index, step_results, collected_snippets,
                   answer_notes, requests, replies, inflight, result>>
    /\ UNCHANGED lib_vars

\* mutant: run without the guard of lines 27-28
RunEnterUnguarded ==
    /\ pc = "not_started"
    /\ pc' = "running"
    /\ index' = 1
    /\ step_results' = <<>>
    /\ collected_snippets' = <<>>
    /\ answer_notes' = <<>>
    /\ UNCHANGED <<cli_query, cli_workflow, task, requests, replies, inflight,
                   result, error>>
    /\ UNCHANGED lib_vars

\* run, lines 26-45: reject an empty task, else set up the accumulators and
\* enter the loop at step 1
RunEnter ==
    /\ pc = "not_started"
    /\ IF task.operations = <<>>
       THEN /\ pc' = "raised"
            /\ error' = Raise("ValueError",
                              Sentence(<<"workflow", "task", "must", "declare", "at",
                                         "least", "one", "operation">>))
            /\ index' = index
       ELSE /\ pc' = "running"
            /\ index' = 1
            /\ error' = error
    /\ step_results' = <<>>
    /\ collected_snippets' = <<>>
    /\ answer_notes' = <<>>
    /\ UNCHANGED <<cli_query, cli_workflow, task, requests, replies, inflight, result>>
    /\ UNCHANGED lib_vars

\* mutant: `break` in place of `continue`, the loop ends at the first failure
StepFailedBreak(exc) ==
    /\ step_results' = Append(step_results, FailedStep(CurrentStep, exc))
    /\ answer_notes' = Append(answer_notes, FailedNote(index, CurrentStep, exc))
    /\ index' = Len(task.operations) + 1
    /\ UNCHANGED <<pc, error, collected_snippets>>

\* mutant: a failure leaves its note but no StepResult
StepFailedUnrecorded(exc) ==
    /\ answer_notes' = Append(answer_notes, FailedNote(index, CurrentStep, exc))
    /\ index' = index + 1
    /\ UNCHANGED <<pc, error, collected_snippets, step_results>>

\* mutant: the except branch raises the exception again, the run is aborted
StepFailedReraised(exc) ==
    /\ pc' = "raised"
    /\ error' = exc
    /\ UNCHANGED <<step_results, answer_notes, index, collected_snippets>>

\* mutant: the text of the exception is also kept as a context snippet
StepFailedAddingSnippet(exc) ==
    /\ step_results' = Append(step_results, FailedStep(CurrentStep, exc))
    /\ answer_notes' = Append(answer_notes, FailedNote(index, CurrentStep, exc))
    /\ collected_snippets' = Append(collected_snippets, exc.msg)
    /\ index' = index + 1
    /\ UNCHANGED <<pc, error>>

\* lines 48-63: the except branch of the loop body; an exception the clause
\* does not catch leaves run
StepFailed(exc) ==
    IF Caught(exc)
    THEN /\ step_results' = Append(step_results, FailedStep(CurrentStep, exc))
         /\ answer_notes' = Append(answer_notes, FailedNote(index, CurrentStep, exc))
         /\ index' = index + 1
         /\ UNCHANGED <<pc, error, collected_snippets>>
    ELSE /\ pc' = "raised"
         /\ error' = exc
         /\ UNCHANGED <<step_results, answer_notes, index, collected_snippets>>

\* mutant: the handlers are started without being awaited, one after the other
StepDispatchUnawaited ==
    /\ pc = "running"
    /\ inflight = NoRequest
    /\ index <= Len(task.operations)
    /\ LET call == execute_step_call(CurrentStep, task)
       IN  IF call.raised
           THEN /\ step_results' = Append(step_results, FailedStep(CurrentStep, call))
                /\ answer_notes' = Append(answer_notes, FailedNote(index, CurrentStep, call))
                /\ requests' = requests
           ELSE /\ requests' = Append(requests,
                                      [step |-> index, recorded |-> Len(step_results),
                                       request |-> call.value])
                /\ UNCHANGED <<step_results, answer_notes>>
    /\ index' = index + 1
    /\ replies' = Append(replies, NoReply)
    /\ UNCHANGED <<pc, error, collected_snippets, inflight, cli_query, cli_workflow,
                   task, result>>
    /\ UNCHANGED lib_vars

\* lines 45-47: the loop takes the next step and dispatches it; the handler
\* either raises before any request or issues its one request and suspends
StepDispatch ==
    /\ pc = "running"
    /\ inflight = NoRequest
    /\ index <= Len(task.operations)
    /\ LET call == execute_step_call(CurrentStep, task)
       IN  IF call.raised
           THEN /\ StepFailed(call)
                /\ replies' = Append(replies, NoReply)
                /\ UNCHANGED <<requests, inflight>>
           ELSE /\ requests' = Append(requests,
                                      [step |-> index, recorded |-> Len(step_results),
                                       request |-> call.value])
                /\ inflight' = call.value
                /\ UNCHANGED <<pc, error, step_results, answer_notes, replies,
                               index, collected_snippets>>
    /\ UNCHANGED <<cli_query, cli_workflow, task, result>>
    /\ UNCHANGED lib_vars

\* mutant: a request answered with an error status is issued a second time
StepResumeRetrying ==
    /\ pc = "running"
    /\ inflight # NoRequest
    /\ \E response \in Responses(CurrentStep.operation) :
         LET done == execute_step_done(CurrentStep, task, response)
             issued == {k \in 1..Len(requests) : requests[k].step = index}
         IN  IF response.status_code \notin 200..299 /\ Cardinality(issued) < 2
             THEN /\ requests' = Append(requests,
                                        [step |-> index, recorded |-> Len(step_results),
                                         request |-> inflight])
                  /\ UNCHANGED <<replies, step_results, collected_snippets,
                                 answer_notes, index, pc, error, inflight>>
             ELSE /\ replies' = Append(replies, response)
                  /\ requests' = requests
                  /\ inflight' = NoRequest
                  /\ IF done.raised
                     THEN StepFailed(done)
                     ELSE /\ step_results' = Append(step_results, SucceededStep(CurrentStep, done.value))
                          /\ collected_snippets' = Extend(collected_snippets, done.value.snippets)
                          /\ answer_notes' = answer_notes \o SucceededNotes(index, CurrentStep, done.value)
                          /\ index' = index + 1
                          /\ UNCHANGED <<pc, error>>
    /\ UNCHANGED <<cli_query, cli_workflow, task, result>>
    /\ UNCHANGED lib_vars

\* lines 47-74: the remote engine answers, the handler resumes and the loop
\* body records the step
StepResume ==
    /\ pc = "running"
    /\ inflight # NoRequest
    /\ \E response \in Responses(CurrentStep.operation) :
         LET done == execute_step_done(CurrentStep, task, response)
         IN  /\ replies' = Append(replies, response)
             /\ IF done.raised
                THEN StepFailed(done)
                ELSE /\ step_results' = Append(step_results, SucceededStep(CurrentStep, done.value))
                     /\ collected_snippets' = Extend(collected_snippets, done.value.snippets)
                     /\ answer_notes' = answer_notes \o SucceededNotes(index, CurrentStep, done.value)
                     /\ index' = index + 1
                     /\ UNCHANGED <<pc, error>>
    /\ inflight' = NoRequest
    /\ UNCHANGED <<cli_query, cli_workflow, task, requests, result>>
    /\ UNCHANGED lib_vars

\* lines 76-98: the loop is over; build the answer and return the result
RunReturn ==
    /\ pc = "running"
    /\ inflight = NoRequest
    /\ index > Len(task.operations)
    /\ pc' = "completed"
    /\ result' = AgentResult(task.task_id,
                             BuildAnswer(task.query, collected_snippets, answer_notes),
                             collected_snippets, MergeMetadata(task), step_results)
    /\ UNCHANGED <<cli_query, cli_workflow, task, index, step_results,
                   collected_snippets, answer_notes, requests, replies,
                   inflight, error>>
    /\ UNCHANGED lib_vars

Next ==
    \/ ParseWorkflow
    \/ RunEnter
    \/ StepDispatch
    \/ StepResume
    \/ RunReturn

Spec == Init /\ [][Next]_vars

-----------------------------------------------------------------------------
(* Direct calls of the library: the methods of RagClient *)

\* a direct call: the function called and its keyword arguments
LibraryCall(fn, args) == [fn |-> fn, args |-> args]

NoArgs == [k \in {} |-> None]

\* the operation whose endpoint a client method calls
MethodOperation(fn) ==
    CASE fn = "semantic_search" -> SEMANTIC_SEARCH
      [] fn = "search_source_summaries" -> SOURCE_SUMMARY_SEARCH
      [] fn = "start_analysis" -> START_ANALYSIS
      [] fn = "get_analysis_result" -> GET_ANALYSIS_RESULT
      [] fn = "list_analysis_results" -> LIST_ANALYSIS_RESULTS
      [] fn = "generate_documents" -> GENERATE_DOCUMENTS
      [] fn = "get_document_status" -> GET_DOCUMENT_STATUS
      [] fn = "get_embedding_stats" -> EMBEDDING_STATS

ClientMethods ==
    {"semantic_search", "search_source_summaries", "start_analysis",
     "get_analysis_result", "list_analysis_results", "generate_documents",
     "get_document_status", "get_embedding_stats"}

\* the direct calls of RagClient methods: each method with valid arguments,
\* start_analysis and generate_documents also with an empty sequence
ClientCalls ==
    {LibraryCall("semantic_search", [query |-> Q, k |-> k, analysis_id |-> a]) :
         k \in {1, 5}, a \in {None, AnalysisId}}
    \cup {LibraryCall("search_source_summaries",
                      [analysis_id |-> AnalysisId, query |-> Q, top_k |-> 10])}
    \cup {LibraryCall("start_analysis", [repositories |-> r, options |-> o]) :
              r \in {<<>>, <<"repo">>},
              o \in {NoArgs, [branch |-> None], [branch |-> <<"main">>]}}
    \cup {LibraryCall("get_analysis_result", [analysis_id |-> AnalysisId])}
    \cup {LibraryCall("list_analysis_results", NoArgs)}
    \cup {LibraryCall("generate_documents",
                      [analysis_id |-> AnalysisId, document_types |-> d,
                       language |-> <<"korean">>, custom_prompt |-> c,
                       use_source_summaries |-> u]) :
              d \in {<<>>, <<"readme">>}, c \in {None, <<"p">>}, u \in BOOLEAN}
    \cup {LibraryCall("get_document_status", [task_id |-> <<"T">>])}
    \cup {LibraryCall("get_embedding_stats", NoArgs)}

\* a client method up to its await: the request it issues or the exception
\* it raises before any request
client_request(c) ==
    LET a == c.args
    IN  CASE c.fn = "semantic_search" -> semantic_search_request(a.query, a.k, a.analysis_id)
          [] c.fn = "search_source_summaries" ->
                 search_source_summaries_request(a.analysis_id, a.query, a.top_k)
          [] c.fn = "start_analysis" -> start_analysis_request(a.repositories, a.options)
          [] c.fn = "get_analysis_result" -> get_analysis_result_request(a.analysis_id)
          [] c.fn = "list_analysis_results" -> list_analysis_results_request
          [] c.fn = "generate_documents" ->
                 generate_documents_request(a.analysis_id, a.document_types, a.language,
                                            a.custom_prompt, a.use_source_summaries)
          [] c.fn = "get_document_status" -> get_document_status_request(a.task_id)
          [] c.fn = "get_embedding_stats" -> get_embedding_stats_request

\* a client method after its await: what it returns or raises on a response
client_result(c, response) ==
    CASE c.fn = "semantic_search" -> semantic_search_result(response)
      [] c.fn = "search_source_summaries" -> search_source_summaries_result(response)
      [] c.fn = "start_analysis" -> start_analysis_result(response)
      [] c.fn = "get_analysis_result" -> get_analysis_result_result(response)
      [] c.fn = "list_analysis_results" -> list_analysis_results_result(response)
      [] c.fn = "generate_documents" -> generate_documents_result(response)
      [] c.fn = "get_document_status" -> get_document_status_result(response)
      [] c.fn = "get_embedding_stats" -> get_embedding_stats_result(response)

\* a caller invokes a client method: the method checks its arguments and
\* either raises or issues its one request through _request_json
ClientInvoke ==
    /\ pc = "library"
    /\ lib_call.fn \in ClientMethods
    /\ LET request == client_request(lib_call)
       IN  IF request.raised
           THEN /\ pc' = "returned"
                /\ lib_outcome' = request
                /\ lib_sent' = lib_sent
           ELSE /\ pc' = "awaiting"
                /\ lib_sent' = Append(lib_sent, request.value)
                /\ lib_outcome' = lib_outcome
    /\ UNCHANGED <<lib_call, lib_reply>>
    /\ UNCHANGED agent_vars

\* the remote engine answers and the client method finishes
ClientAnswer ==
    /\ pc = "awaiting"
    /\ \E response \in Responses(MethodOperation(lib_call.fn)) :
           /\ lib_reply' = response
           /\ lib_outcome' = client_result(lib_call, response)
    /\ pc' = "returned"
    /\ UNCHANGED <<lib_call, lib_sent>>
    /\ UNCHANGED agent_vars

-----------------------------------------------------------------------------
(* Direct calls of the library: as_context and synthesize_answer *)

\* the values a metadata key may carry: absent, empty, or the key's own value
MetadataValues(key) ==
    CASE key = "file_name" -> {<<>>, <<"a.md">>}
      [] key = "file_path" -> {<<>>, <<"b.md">>}
      [] key = "document_type" -> {<<>>, <<"readme">>}
      [] key = "analysis_id" -> {<<>>, AnalysisId}

LabelKeys == {"file_name", "file_path", "document_type", "analysis_id"}

\* every metadata mapping over the label keys
Metadatas ==
    UNION {[keys -> {<<>>, <<"a.md">>, <<"b.md">>, <<"readme">>, AnalysisId}] :
               keys \in SUBSET LabelKeys}

LabelMetadatas == {m \in Metadatas : \A key \in DOMAIN m : m[key] \in MetadataValues(key)}

Contents == {<<"body">>, <<" ", "lead", "\n", "tail", " ">>}

ContextCalls ==
    {LibraryCall("as_context", [entry |-> RagSearchResult(c, JDict(m), None, None)]) :
         c \in Contents, m \in LabelMetadatas}

X280 == X50 \o X50 \o X50 \o X50 \o X50 \o X10 \o X10 \o X10

\* snippets: short ones, one with a word too long for the line, one whose
\* last word is a hyphenated compound, one with a run of blanks
SnippetTexts ==
    {<<"s1">>,
     <<"s2">>,
     <<X300, " ", "end">>,
     <<X280, " ", "alpha-", "beta-", "gamma", " ", "end">>,
     <<X280 \o X10, " ", " ", " ", " ", " ", " ", "tail">>}

SynthesizeCalls ==
    {LibraryCall("synthesize_answer", [query |-> q, snippets |-> sn]) :
         q \in {<<>>, Q},
         sn \in SeqsUpTo(SnippetTexts, MaxSnippets)}

LibraryCalls == ClientCalls \cup ContextCalls \cup SynthesizeCalls

\* RagSearchResult.as_context() called on a result
AsContext ==
    /\ pc = "library"
    /\ lib_call.fn = "as_context"
    /\ pc' = "returned"
    /\ lib_outcome' = Return(SearchAsContext(lib_call.args.entry))
    /\ UNCHANGED <<lib_call, lib_sent, lib_reply>>
    /\ UNCHANGED agent_vars

\* synthesize_answer(query, snippets) called directly
Synthesize ==
    /\ pc = "library"
    /\ lib_call.fn = "synthesize_answer"
    /\ pc' = "returned"
    /\ lib_outcome' = Return(synthesize_answer(lib_call.args.query, lib_call.args.snippets))
    /\ UNCHANGED <<lib_call, lib_sent, lib_reply>>
    /\ UNCHANGED agent_vars

\* a caller of the library makes one direct call
LibInit ==
    /\ pc = "library"
    /\ lib_call \in LibraryCalls
    /\ lib_sent = <<>>
    /\ lib_reply = NoReply
    /\ lib_outcome = NoOutcome
    /\ cli_query = None
    /\ cli_workflow = <<>>
    /\ task = NoTask
    /\ index = 0
    /\ step_results = <<>>
    /\ collected_snippets = <<>>
    /\ answer_notes = <<>>
    /\ requests = <<>>
    /\ replies = <<>>
    /\ inflight = NoRequest
    /\ result = NoResult
    /\ error = NoError

LibNext ==
    \/ ClientInvoke
    \/ ClientAnswer
    \/ AsContext
    \/ Synthesize

-----------------------------------------------------------------------------
(* RagWorkflowAgent.run called with a task its caller built *)

\* typed steps: a search with a query of its own, a step that fails its
\* validation, a step without parameters
ApiSteps ==
    {RagWorkflowStep(SEMANTIC_SEARCH, [query |-> StepQ]),
     RagWorkflowStep(GET_DOCUMENT_STATUS, NoArgs),
     RagWorkflowStep(EMBEDDING_STATS, NoArgs)}

\* task.metadata: None, an empty mapping, a mapping with a key of its own,
\* a mapping that also sets workflow_operation_count
ApiMetadata ==
    {JNull,
     EmptyDict,
     JDict([source |-> <<"api">>]),
     JDict([source |-> <<"api">>, workflow_operation_count |-> <<"9">>])}

ApiTasks ==
    {RagWorkflowTask("task-api", q, ops, m) :
         q \in {None, Q}, ops \in SeqsUpTo(ApiSteps, MaxApiOps), m \in ApiMetadata}

ApiInit ==
    /\ pc = "not_started"
    /\ task \in ApiTasks
    /\ cli_query = None
    /\ cli_workflow = <<>>
    /\ index = 0
    /\ step_results = <<>>
    /\ collected_snippets = <<>>
    /\ answer_notes = <<>>
    /\ requests = <<>>
    /\ replies = <<>>
    /\ inflight = NoRequest
    /\ result = NoResult
    /\ error = NoError
    /\ lib_call = NoCall
    /\ lib_sent = <<>>
    /\ lib_reply = NoReply
    /\ lib_outcome = NoOutcome

ApiNext ==
    \/ RunEnter
    \/ StepDispatch
    \/ StepResume
    \/ RunReturn

\* the tasks the lifecycle of run is followed on: the lifecycle reads neither
\* the answer text nor the metadata, so the tasks carry no task-level query
\* (each search brings its own) and no metadata
LifecycleInit ==
    /\ ApiInit
    /\ task.query = None
    /\ task.metadata = JNull

\* run is a coroutine the event loop drives to its end: each of its steps is
\* taken once it can be, and every awaited remote call is answered (with a
\* response or an error status)
FairApiSpec ==
    /\ LifecycleInit
    /\ [][ApiNext]_vars
    /\ WF_vars(RunEnter)
    /\ WF_vars(StepDispatch)
    /\ WF_vars(StepResume)
    /\ WF_vars(RunReturn)

-----------------------------------------------------------------------------
(* The program as a whole: the CLI, callers of run and callers of the library *)

ProgramInit == Init \/ ApiInit \/ LibInit

ProgramNext == Next \/ LibNext

ProgramSpec == ProgramInit /\ [][ProgramNext]_vars

-----------------------------------------------------------------------------
(* Properties *)

\* what step j's own handler did, recomputed from the step and the response
\* the step resumed with: the exception it raised, if any
StepCall(j) == execute_step_call(task.operations[j], task)
StepDone(j) == execute_step_done(task.operations[j], task, replies[j])
StepFault(j) == IF StepCall(j).raised THEN StepCall(j) ELSE StepDone(j)
StepFaulted(j) == StepFault(j).raised
StepSnippets(j) == IF StepFaulted(j) THEN <<>> ELSE StepDone(j).value.snippets
RequestedSteps == {requests[k].step : k \in 1..Len(requests)}

\* C1: a failed step never stops the run: the loop goes on to the next step,
\* every later step whose parameters are valid still gets its request, and a
\* later step whose own handler returns is recorded as succeeded.
C1_FailureIsContained ==
    \A i \in 1..Len(step_results) :
        step_results[i].status = "failed" =>
            /\ pc \in {"running", "completed"}
            /\ error = NoError
            /\ index = Len(step_results) + 1
            /\ pc = "completed" =>
                   /\ Len(result.steps) = Len(task.operations)
                   /\ \A j \in (i + 1)..Len(task.operations) :
                          /\ ~StepCall(j).raised => j \in RequestedSteps
                          /\ ~StepFaulted(j) => result.steps[j].status = "succeeded"

C1_Witness ==
    /\ pc = "completed"
    /\ Len(result.steps) = 2
    /\ result.steps[1].status = "failed"
    /\ result.steps[2].status = "succeeded"

\* C2: a run with at least one operation never raises: every fault of a
\* step, a server error included, ends as a failed StepResult whose output is
\* {error: <the text of the exception>}.
C2_StepFaultsNeverLeaveRun ==
    /\ pc = "raised" => task.operations = <<>>
    /\ pc \in {"not_started", "running", "completed"} => error = NoError
    /\ pc = "completed" =>
           \A j \in 1..Len(task.operations) :
               StepFaulted(j) =>
                   /\ result.steps[j].status = "failed"
                   /\ DOMAIN result.steps[j].output = {"error"}
                   /\ result.steps[j].output.error = StepFault(j).msg
                   /\ result.steps[j].output.error # <<>>

C2_Witness ==
    /\ pc = "completed"
    /\ \E j \in 1..Len(replies) :
           /\ replies[j].status_code = 500
           /\ result.steps[j].status = "failed"
           /\ result.steps[j].output.error = <<"Server", " ", "error", " ", "500">>

\* C3: the steps of the result are the operations of the task, one
\* StepResult per operation and in the same order; while the run is under way
\* the recorded steps are the operations already gone through.
C3_OneStepResultPerOperation ==
    /\ pc \in {"running", "completed"} =>
           /\ Len(step_results) = index - 1
           /\ \A i \in 1..Len(step_results) :
                  step_results[i].operation = task.operations[i].operation
    /\ pc = "completed" =>
           /\ Len(result.steps) = Len(task.operations)
           /\ \A i \in 1..Len(task.operations) :
                  result.steps[i].operation = task.operations[i].operation

C3_Witness ==
    /\ pc = "completed"
    /\ Len(task.operations) = 2
    /\ task.operations[1].operation # task.operations[2].operation
    /\ result.steps[1].status = "succeeded"
    /\ result.steps[2].status = "failed"

\* the snippets of steps 1..j, step after step
RECURSIVE SnippetsUpTo(_)
SnippetsUpTo(j) == IF j = 0 THEN <<>> ELSE SnippetsUpTo(j - 1) \o StepSnippets(j)

\* C4: the collected snippets are the snippet lists of the steps put one
\* after the other in step order, each list in the order its step gave it.
C4_SnippetsAreStepMajor ==
    /\ pc \in {"running", "completed"} => collected_snippets = SnippetsUpTo(Len(replies))
    /\ pc = "completed" =>
           /\ Len(replies) = Len(task.operations)
           /\ result.context_snippets = collected_snippets

C4_Witness ==
    /\ pc = "completed"
    /\ Len(task.operations) = 2
    /\ Len(StepSnippets(1)) = 2
    /\ Len(StepSnippets(2)) = 1
    /\ StepSnippets(1)[1] # StepSnippets(1)[2]
    /\ StepSnippets(2)[1] \notin {StepSnippets(1)[1], StepSnippets(1)[2]}
    /\ result.context_snippets =
           <<StepSnippets(1)[1], StepSnippets(1)[2], StepSnippets(2)[1]>>

\* C5: run on a task without operations raises ValueError to its caller
\* with no StepResult made, no request issued and no result returned.
C5_EmptyTaskIsRejected ==
    (pc \in {"running", "completed", "raised"} /\ task.operations = <<>>) =>
        /\ pc = "raised"
        /\ error.raised
        /\ error.type = "ValueError"
        /\ step_results = <<>>
        /\ requests = <<>>
        /\ replies = <<>>
        /\ result = NoResult

C5_Witness ==
    /\ pc = "raised"
    /\ cli_workflow = <<>>
    /\ error.type = "ValueError"

\* C6: the answer is the synthesized one when the task has a query and a
\* snippet was collected, else the notes joined by newlines when there is a
\* note, else the fixed literal.
C6_AnswerFallbackOrder ==
    pc = "completed" =>
        IF Truthy(task.query) /\ collected_snippets # <<>>
        THEN result.answer = synthesize_answer(task.query, collected_snippets)
        ELSE IF answer_notes # <<>>
        THEN result.answer = Join(answer_notes, <<"\n">>)
        ELSE result.answer = NoTextualOutput

C6_Witness ==
    /\ pc = "completed"
    /\ ~Truthy(task.query)
    /\ collected_snippets # <<>>
    /\ Len(answer_notes) = 2
    /\ result.answer = answer_notes[1] \o <<"\n">> \o answer_notes[2]

\* C7: the synthesized answer starts with "Question: {query}", a line break,
\* then "Context: " and the snippets: the line break between the question and
\* the context is kept.
C7_LineBreakIsKept ==
    (pc = "completed" /\ Truthy(task.query) /\ collected_snippets # <<>>) =>
        SubSeq(result.answer, 1, Len(task.query) + 5) =
            <<"Question:", " ">> \o task.query \o <<"\n", "Context:", " ">>

\* C8: the steps of a run go one at a time: when the request of step j is
\* issued exactly the j - 1 steps before it are recorded, the requests follow
\* the step order, and at most one request awaits its answer.
C8_StepsAreSequential ==
    /\ \A k \in 1..Len(requests) : requests[k].recorded = requests[k].step - 1
    /\ \A k \in 1..(Len(requests) - 1) : requests[k].step < requests[k + 1].step
    /\ Cardinality({k \in 1..Len(requests) : requests[k].step > Len(step_results)}) <= 1
    /\ inflight # NoRequest =>
           /\ requests # <<>>
           /\ requests[Len(requests)].request = inflight
           /\ requests[Len(requests)].step = Len(step_results) + 1

C8_Witness ==
    /\ pc = "running"
    /\ Len(requests) = 2
    /\ inflight # NoRequest
    /\ Len(step_results) = 1
    /\ requests[1].step = 1
    /\ requests[2].step = 2

QueryOperations == {SEMANTIC_SEARCH, SOURCE_SUMMARY_SEARCH}

\* the query a search request carries
SentQuery(request) ==
    IF request.method = "POST" THEN request.json.query ELSE request.params.query

\* C9: a search request carries the step's own query when the step has a
\* non-empty one, else the task's query; with neither, the step fails with an
\* error that names the operation and issues no request.
C9_StepQueryWins ==
    /\ \A k \in 1..Len(requests) :
           LET step == task.operations[requests[k].step]
               own == PGet(step.parameters, "query", None)
           IN  step.operation \in QueryOperations =>
                   /\ Truthy(SentQuery(requests[k].request))
                   /\ SentQuery(requests[k].request) =
                          IF Truthy(own) THEN own ELSE task.query
    /\ \A j \in 1..Len(step_results) :
           LET step == task.operations[j]
           IN  ( /\ step.operation \in QueryOperations
                 /\ ~Truthy(PGet(step.parameters, "query", None))
                 /\ ~Truthy(task.query) ) =>
                   /\ step_results[j].status = "failed"
                   /\ Head(step_results[j].output.error) = step.operation
                   /\ j \notin RequestedSteps

C9_Witness ==
    /\ task.query = Q
    /\ \E k \in 1..Len(requests) :
           /\ task.operations[requests[k].step].operation \in QueryOperations
           /\ PGet(task.operations[requests[k].step].parameters, "query", None) = StepQ
           /\ SentQuery(requests[k].request) = StepQ

\* a workflow definition whose only defect is an operation value outside the
\* enumeration
OnlyUnknownOperations(parsed) ==
    /\ \A i \in 1..Len(parsed) : ~MissingOperation(parsed[i]) /\ ~BadParameters(parsed[i])
    /\ \E i \in 1..Len(parsed) : UnknownOperation(parsed[i])

\* C10: an operation value outside the enumeration fails its own step only:
\* nothing leaves to the caller, the run completes, and the result holds a
\* failed StepResult for that step beside the results of the other steps.
C10_UnknownOperationFailsItsStepOnly ==
    OnlyUnknownOperations(cli_workflow) =>
        /\ error = NoError
        /\ pc # "exited"
        /\ pc = "completed" =>
               /\ Len(result.steps) = Len(cli_workflow)
               /\ \A i \in 1..Len(cli_workflow) :
                      UnknownOperation(cli_workflow[i]) => result.steps[i].status = "failed"

\* the direct call hands an empty sequence to start_analysis or to
\* generate_documents
EmptySequenceCall ==
    \/ lib_call.fn = "start_analysis" /\ lib_call.args.repositories = <<>>
    \/ lib_call.fn = "generate_documents" /\ lib_call.args.document_types = <<>>

\* the step hands an empty sequence to start_analysis or to generate_documents
EmptySequenceStep(step) ==
    \/ /\ step.operation = START_ANALYSIS
       /\ PGet(step.parameters, "repositories", None) = <<>>
    \/ /\ step.operation = GENERATE_DOCUMENTS
       /\ PGet(step.parameters, "document_types", None) = <<>>

\* C11: start_analysis with an empty repositories sequence and
\* generate_documents with an empty document_types sequence raise ValueError
\* and issue no network call; in a workflow run a step with such a sequence is
\* recorded as failed and no request is issued for it.
C11_EmptySequenceFailsLocally ==
    /\ EmptySequenceCall =>
           /\ lib_sent = <<>>
           /\ pc # "awaiting"
           /\ pc = "returned" =>
                  /\ lib_outcome.raised
                  /\ lib_outcome.type = "ValueError"
                  /\ lib_reply = NoReply
    /\ \A j \in 1..Len(step_results) :
           EmptySequenceStep(task.operations[j]) =>
               /\ step_results[j].status = "failed"
               /\ j \notin RequestedSteps

C11_Witness ==
    /\ pc = "returned"
    /\ lib_call.fn = "generate_documents"
    /\ lib_call.args.analysis_id = AnalysisId
    /\ lib_call.args.document_types = <<>>
    /\ lib_outcome.raised
    /\ lib_sent = <<>>

\* the empty structured result of a client method: an empty sequence for the
\* methods that return one, an empty mapping for the others
EmptyResult(fn) ==
    CASE fn \in {"semantic_search", "search_source_summaries"} -> <<>>
      [] fn = "list_analysis_results" -> JList(<<>>)
      [] OTHER -> EmptyDict

\* a 2xx response without a body, or whose body is not JSON
BodylessOrNonJson(response) ==
    /\ response # NoReply
    /\ response.status_code \in 200..299
    /\ response.content \in {"empty", "not_json"}

\* C12: a client call answered with a non-2xx status fails; answered with a
\* 2xx response whose body is empty or is not JSON it returns the empty
\* structured result, and the step of a run that got such a response is
\* recorded as succeeded.
C12_EmptyAndNonJsonBodiesMapToEmpty ==
    /\ (pc = "returned" /\ lib_reply # NoReply) =>
           /\ lib_reply.status_code \notin 200..299 => lib_outcome.raised
           /\ BodylessOrNonJson(lib_reply) =>
                  /\ ~lib_outcome.raised
                  /\ lib_outcome.value = EmptyResult(lib_call.fn)
    /\ \A j \in 1..Len(step_results) :
           BodylessOrNonJson(replies[j]) => step_results[j].status = "succeeded"

\* the mapping task.metadata holds (None counts as no key)
TaskMetadata == IF task.metadata.shape = "dict" THEN task.metadata.fields ELSE NoArgs

\* C13: the metadata of the result has the key workflow_operation_count and
\* the keys of task.metadata, nothing else; every key of task.metadata carries
\* the task's value, workflow_operation_count included, and without that key
\* in task.metadata the count is the number of operations.
C13_TaskMetadataOverlaysCount ==
    pc = "completed" =>
        /\ DOMAIN result.metadata = {"workflow_operation_count"} \cup DOMAIN TaskMetadata
        /\ \A key \in DOMAIN TaskMetadata : result.metadata[key] = TaskMetadata[key]
        /\ "workflow_operation_count" \notin DOMAIN TaskMetadata =>
               result.metadata.workflow_operation_count =
                   <<ToString(Len(task.operations))>>

C13_Witness ==
    /\ pc = "completed"
    /\ Len(task.operations) = 2
    /\ task.metadata.shape = "dict"
    /\ DOMAIN task.metadata.fields = {"source", "workflow_operation_count"}
    /\ result.metadata.workflow_operation_count = <<"9">>
    /\ result.metadata.source = <<"api">>

\* the metadata keys a label is taken from, in their precedence
LabelPrecedence == <<"file_name", "file_path", "document_type", "analysis_id">>

\* the ranks of the keys that are present with a non-empty value
PresentRanks(fields) ==
    {i \in 1..Len(LabelPrecedence) :
         /\ LabelPrecedence[i] \in DOMAIN fields
         /\ fields[LabelPrecedence[i]] \notin {<<>>, None}}

\* the value of the present key of highest precedence
FirstPresent(fields) ==
    fields[LabelPrecedence[CHOOSE i \in PresentRanks(fields) :
                               \A k \in PresentRanks(fields) : i <= k]]

\* "[label] content" with a label, the content alone without one
Labelled(fields, content) ==
    IF PresentRanks(fields) = {} THEN content
    ELSE <<"[">> \o FirstPresent(fields) \o <<"]", " ">> \o content

\* a direct call of as_context has returned
AsContextReturned == pc = "returned" /\ lib_call.fn = "as_context"

\* C14 as stated: the snippet is "[label] content", the label being the first
\* non-empty metadata value in the order file_name, file_path, document_type,
\* analysis_id, and it is the content as it stands without a label.
C14_SnippetIsLabelAndContent ==
    AsContextReturned =>
        lib_outcome.value =
            Labelled(lib_call.args.entry.metadata.fields, lib_call.args.entry.content)

\* C14, amended: the snippet is "[label] content" (the content alone without
\* a label) with the leading and trailing whitespace of the whole removed;
\* the label is the first non-empty metadata value in the order file_name,
\* file_path, document_type, analysis_id.
C14_SnippetIsTrimmedLabelAndContent ==
    AsContextReturned =>
        lib_outcome.value =
            Strip(Labelled(lib_call.args.entry.metadata.fields,
                           lib_call.args.entry.content))

C14_Witness ==
    /\ AsContextReturned
    /\ DOMAIN lib_call.args.entry.metadata.fields = {"file_name", "file_path"}
    /\ lib_call.args.entry.metadata.fields.file_name = <<"a.md">>
    /\ lib_call.args.entry.metadata.fields.file_path = <<"b.md">>
    /\ lib_call.args.entry.content = <<" ", "lead", "\n", "tail", " ">>
    /\ lib_outcome.value = <<"[", "a.md", "]", " ", " ", "lead", "\n", "tail">>

\* the step lacks a parameter its operation cannot do without
MissingMandatory(step) ==
    \/ /\ step.operation = SOURCE_SUMMARY_SEARCH
       /\ ~Truthy(PGet(step.parameters, "analysis_id", None))
    \/ /\ step.operation = GENERATE_DOCUMENTS
       /\ \/ ~Truthy(PGet(step.parameters, "analysis_id", None))
          \/ ~Truthy(PGet(step.parameters, "document_types", None))
    \/ /\ step.operation = GET_DOCUMENT_STATUS
       /\ ~Truthy(PGet(step.parameters, "task_id", None))

\* C15: a source_summary_search step without analysis_id (whatever query
\* the step or the task has), a generate_documents step without analysis_id
\* or without a non-empty document_types, and a get_document_status step
\* without task_id are recorded as failed, and no request is ever issued for
\* such a step.
C15_MandatoryParametersAreEnforced ==
    /\ \A k \in 1..Len(requests) : ~MissingMandatory(task.operations[requests[k].step])
    /\ \A j \in 1..Len(step_results) :
           MissingMandatory(task.operations[j]) =>
               /\ step_results[j].status = "failed"
               /\ replies[j] = NoReply

C15_Witness ==
    /\ pc = "completed"
    /\ task.query = Q
    /\ task.operations[1].operation = SOURCE_SUMMARY_SEARCH
    /\ DOMAIN task.operations[1].parameters = {"query"}
    /\ task.operations[1].parameters.query = StepQ
    /\ result.steps[1].status = "failed"
    /\ requests = <<>>

\* the positions in the request history of the requests issued for step j
RequestsOf(j) == {k \in 1..Len(requests) : requests[k].step = j}

\* C16: nothing is retried: every operation is dispatched once, a dispatched
\* step has issued exactly one request when its handler got past its
\* parameter checks and none otherwise, a failed remote call is not issued
\* again, and a run issues at most as many requests as it has operations.
C16_NothingIsRetried ==
    pc \in {"running", "completed"} =>
        /\ Len(replies) = Len(step_results)
        /\ Len(step_results) <= Len(task.operations)
        /\ pc = "completed" => Len(replies) = Len(task.operations)
        /\ \A j \in 1..Len(task.operations) : Cardinality(RequestsOf(j)) <= 1
        /\ \A j \in 1..Len(step_results) :
               Cardinality(RequestsOf(j)) = IF StepCall(j).raised THEN 0 ELSE 1
        /\ Len(requests) <= Len(task.operations)

C16_Witness ==
    /\ pc = "completed"
    /\ Len(task.operations) = 2
    /\ replies[1] # NoReply
    /\ replies[1].status_code = 500
    /\ result.steps[1].status = "failed"
    /\ StepCall(2).raised
    /\ Len(requests) = 1

\* the transitions the lifecycle of a run allows
LifecycleSteps == {<<"not_started", "running">>, <<"running", "completed">>}

\* C17: the run of a task with at least one operation goes from not started
\* to running to completed and makes no other transition; it is completed
\* only with one StepResult recorded for every operation; and, every awaited
\* remote call being answered, a run that was started does reach completed.
C17_RunReachesCompleted ==
    /\ [][(task.operations # <<>> /\ pc' # pc) => <<pc, pc'>> \in LifecycleSteps]_vars
    /\ [](pc = "completed" =>
              /\ Len(step_results) = Len(task.operations)
              /\ Len(result.steps) = Len(task.operations))
    /\ ((pc = "not_started" /\ task.operations # <<>>) ~> (pc = "completed"))

C17_Witness ==
    /\ pc = "completed"
    /\ Len(task.operations) = 2
    /\ result.steps[1].status = "failed"
    /\ result.steps[2].status = "succeeded"
    /\ lib_call = NoCall
    /\ task.task_id = "task-api"

\* a direct call of synthesize_answer on at least one snippet has returned
SynthesizeReturned ==
    /\ pc = "returned"
    /\ lib_call.fn = "synthesize_answer"
    /\ lib_call.args.snippets # <<>>

\* text `a` holds leading words of text `b`, each word whole
LeadingWords(a, b) ==
    /\ Len(Split(a)) <= Len(Split(b))
    /\ SubSeq(Split(b), 1, Len(Split(a))) = Split(a)

\* C18: the answer has at most 320 characters; when the composed
\* "Question/Context" text has more than 320 characters the answer ends with
\* the ellipsis marker, and what precedes the marker are whole leading words
\* of the composed text: the cut is at a word boundary, not inside a word.
C18_CutAtWordBoundary ==
    SynthesizeReturned =>
        LET composed == Combined(lib_call.args.query, lib_call.args.snippets)
            answer == lib_outcome.value
        IN  /\ TextLen(answer) <= Width
            /\ TextLen(composed) > Width =>
                   /\ answer[Len(answer)] = "..."
                   /\ LeadingWords(SubSeq(answer, 1, Len(answer) - 1), composed)

\* the snippets of the steps 1..j that are recorded as succeeded, in order
RECURSIVE SucceededSnippets(_)
SucceededSnippets(j) ==
    IF j = 0 THEN <<>>
    ELSE SucceededSnippets(j - 1)
         \o (IF step_results[j].status = "succeeded"
             THEN StepDone(j).value.snippets ELSE <<>>)

\* the positions in the notes log of the failure notes written for step j
FailureNotesOf(j) ==
    {n \in 1..Len(answer_notes) :
         /\ Len(answer_notes[n]) >= 7
         /\ answer_notes[n][3] = ToString(j)
         /\ answer_notes[n][7] = "failed:"}

\* C19: the snippets of the run are exactly those of the steps recorded as
\* succeeded, a step that failed after its remote call included among those
\* that add none; each failed step has its one StepResult and exactly one
\* note "Step {i} ({op}) failed: {error}" with its 1-based position i, and a
\* succeeded step has no such note.
C19_FailedStepsAddNoSnippets ==
    pc \in {"running", "completed"} =>
        /\ collected_snippets = SucceededSnippets(Len(step_results))
        /\ pc = "completed" =>
               /\ Len(result.steps) = Len(task.operations)
               /\ result.context_snippets = SucceededSnippets(Len(task.operations))
        /\ \A j \in 1..Len(step_results) :
               IF step_results[j].status = "failed"
               THEN /\ Cardinality(FailureNotesOf(j)) = 1
                    /\ \E n \in FailureNotesOf(j) :
                           answer_notes[n] =
                               <<"Step", " ", ToString(j), " ",
                                 "(" \o task.operations[j].operation \o ")", " ",
                                 "failed:", " ">> \o step_results[j].output.error
               ELSE FailureNotesOf(j) = {}

C19_Witness ==
    /\ pc = "completed"
    /\ Len(task.operations) = 2
    /\ task.operations[1].operation = GET_ANALYSIS_RESULT
    /\ replies[1] # NoReply
    /\ replies[1].status_code = 200
    /\ replies[1].content = "json"
    /\ result.steps[1].status = "failed"
    /\ result.steps[2].status = "succeeded"
    /\ Len(result.context_snippets) = 2
    /\ result.context_snippets = StepDone(2).value.snippets
    /\ FailureNotesOf(1) = {1}

\* C20: the notes log has exactly one entry per recorded step, the n-th
\* entry being the note of step n ("Step n (op)..."), so that a run that
\* returns has as many notes as operations, its answer is not empty and is
\* not the fixed literal "Workflow completed without textual output.".
C20_OneNotePerStep ==
    pc \in {"running", "completed"} =>
        /\ Len(answer_notes) = Len(step_results)
        /\ \A n \in 1..Len(answer_notes) :
               /\ SubSeq(answer_notes[n], 1, 4) = <<"Step", " ", ToString(n), " ">>
               /\ answer_notes[n][5] \in {"(" \o task.operations[n].operation \o ")",
                                          "(" \o task.operations[n].operation \o "):"}
               /\ Len(answer_notes[n]) > 6
        /\ pc = "completed" =>
               /\ Len(answer_notes) = Len(task.operations)
               /\ result.answer # <<>>
               /\ TextLen(result.answer) > 0
               /\ result.answer # NoTextualOutput

C20_Witness ==
    /\ pc = "completed"
    /\ Len(task.operations) = 2
    /\ task.operations[1].operation = EMBEDDING_STATS
    /\ result.steps[1].status = "succeeded"
    /\ result.steps[2].status = "failed"
    /\ result.context_snippets = <<>>
    /\ Len(answer_notes) = 2
    /\ result.answer = answer_notes[1] \o <<"\n">> \o answer_notes[2]

====
